---- MODULE Spec2Model ----
(***************************************************************************)
(* Lifecycle and call-dispatch bridge of the SampSharp plugin              *)
(* (src/src/SampSharp/main.cpp).                                           *)
(*                                                                         *)
(* The plugin's entry points (Load, Unload, ProcessTick, OnPublicCall) are *)
(* called by the host server from one thread, one at a time, so each entry *)
(* point is one atomic action.  Every entry point is written as an         *)
(* operator from a "world" record to a world record, following the         *)
(* statements of the C++ function in order.  The world holds the global    *)
(* flag filterscript_loaded, the two handles' loaded flags, the value the  *)
(* function returns and the list of calls it made to other components,     *)
(* each stamped with the source line of the call and with the handles'     *)
(* state at the moment of the call.                                        *)
(***************************************************************************)
EXTENDS Integers, Sequences, FiniteSets

\* ------------------------------------------------------------------ bounds
\* Longest configured symbol-file list, in characters.
MaxLen == 4

\* The run-long counters (filterscript requests, runtime loads) stop counting here.
MaxRequests == 2

\* ------------------------------------------------------------- vocabulary
\* Characters a symbol-file list is made of; " " is the getline delimiter.
Chars == {"a", "b", " "}

\* Names an ifstream may be asked to open, relative to the game-mode
\* directory; <<>> is the directory itself (file.empty()).
FileNames == {<<>>, <<"a">>, <<"b">>}

\* Event names the host dispatches: the two distinguished ones, two others.
EventNames == {"OnGameModeInit", "OnGameModeExit", "OnPlayerConnect", "OnPlayerUpdate"}

RECURSIVE StringsUpTo(_)
StringsUpTo(n) ==
    IF n = 0 THEN {<<>>}
    ELSE LET shorter == StringsUpTo(n - 1)
         IN shorter \cup {Append(s, c) : s \in {t \in shorter : Len(t) = n - 1}, c \in Chars}

VARIABLES
    phase,                \* "unattached", "attached", "failed", "detached"
    filterscript_loaded,  \* main.cpp:32
    gm_loaded,            \* what GameMode::IsLoaded() reports
    rt_loaded,            \* what MonoRuntime::IsLoaded() reports
    symbols,              \* what Config::GetSymbolFiles() returns
    files,                \* the names an ifstream opens successfully
    op,                   \* the last entry point called, with its argument
    pre,                  \* lifecycle state when that entry point was entered
    calls,                \* the calls that entry point made, in order
    ret,                  \* what it returned: "true", "false" or "void"
    loadfs_requests,      \* SendRconCommand("loadfs empty") issued so far
    rt_loads,             \* MonoRuntime::Load calls since the last MonoRuntime::Unload
    milestones            \* the load steps, in the order each was first taken

vars == <<phase, filterscript_loaded, gm_loaded, rt_loaded, symbols, files,
          op, pre, calls, ret, loadfs_requests, rt_loads, milestones>>

\* ------------------------------------------------------------ world record
World ==
    [fs |-> filterscript_loaded, gm |-> gm_loaded, rt |-> rt_loaded,
     calls |-> <<>>, ret |-> "void"]

\* A call made at source line `line`, with the handles' state at that moment.
Call(w, line, callee, arg, n) ==
    [w EXCEPT !.calls = Append(@, [line |-> line, call |-> callee, arg |-> arg,
                                   n |-> n, gm |-> w.gm, rt |-> w.rt])]

Log(w, line, text) == Call(w, line, "logprintf", text, 0)

Return(w, value) == [w EXCEPT !.ret = value]

\* ------------------------------------------------ the two external handles
GameMode_IsLoaded(w) == w.gm

\* GameMode::Load(namespace, class) -> bool.  The game-mode lives inside the
\* managed runtime: the load succeeds only when the runtime is loaded and
\* the managed side (`ok`) accepts the class.
GameMode_Load(w, line, ok) ==
    LET c == Call(w, line, "GameMode::Load", <<>>, 0)
    IN [c EXCEPT !.gm = w.gm \/ (ok /\ w.rt)]

GameMode_Unload(w, line) ==
    LET c == Call(w, line, "GameMode::Unload", <<>>, 0)
    IN [c EXCEPT !.gm = FALSE]

GameMode_ProcessTick(w, line) == Call(w, line, "GameMode::ProcessTick", <<>>, 0)

GameMode_ProcessPublicCall(w, line, name) ==
    Call(w, line, "GameMode::ProcessPublicCall", <<name>>, 0)

MonoRuntime_IsLoaded(w) == w.rt

\* MonoRuntime::Load returns nothing; whether the runtime came up (`ok`) is
\* visible only through IsLoaded().
MonoRuntime_Load(w, line, ok) ==
    LET c == Call(w, line, "MonoRuntime::Load", <<>>, 0)
    IN [c EXCEPT !.rt = w.rt \/ ok]

MonoRuntime_Unload(w, line) ==
    LET c == Call(w, line, "MonoRuntime::Unload", <<>>, 0)
    IN [c EXCEPT !.rt = FALSE]

\* ---------------------------------------------------------- convertSymbols
\* Position of the first `delim` in s, 0 when there is none.
FirstDelim(s, delim) ==
    IF \E i \in 1..Len(s) : s[i] = delim
    THEN CHOOSE i \in 1..Len(s) : s[i] = delim /\ \A j \in 1..(i - 1) : s[j] # delim
    ELSE 0

\* A getline that first skips leading delimiters, as formatted extraction
\* (stream >> file) does: a run of spaces counts as one separator.
getline_SkipsDelimiterRuns(stream, delim) ==
    LET lead == {i \in 1..Len(stream) : \A j \in 1..i : stream[j] = delim}
        body == SubSeq(stream, Cardinality(lead) + 1, Len(stream))
    IN IF body = <<>> THEN [ok |-> FALSE, file |-> <<>>, rest |-> <<>>]
       ELSE LET i == FirstDelim(body, delim)
            IN IF i = 0 THEN [ok |-> TRUE, file |-> body, rest |-> <<>>]
               ELSE [ok |-> TRUE, file |-> SubSeq(body, 1, i - 1),
                     rest |-> SubSeq(body, i + 1, Len(body))]

\* std::getline(stream, file, delim): fails only when nothing at all could be
\* extracted; an extracted delimiter is dropped and ends the field.
getline(stream, delim) ==
    IF stream = <<>> THEN [ok |-> FALSE, file |-> <<>>, rest |-> <<>>]
    ELSE LET i == FirstDelim(stream, delim)
         IN IF i = 0 THEN [ok |-> TRUE, file |-> stream, rest |-> <<>>]
            ELSE [ok |-> TRUE, file |-> SubSeq(stream, 1, i - 1),
                  rest |-> SubSeq(stream, i + 1, Len(stream))]

\* std::ifstream ifile(path): true when the stream opened.
ifstream(file) == file \in files

\* The loop with `break` where the code has `continue`.
RECURSIVE convertLoop_BreaksOnFailure(_, _, _)
convertLoop_BreaksOnFailure(w, stream, successes) ==
    LET g == getline(stream, " ")
    IN IF ~g.ok THEN [w |-> w, successes |-> successes]
       ELSE LET w1 == Log(w, 45, <<"Converting: %s">> \o g.file)
            IN IF g.file = <<>> \/ ~ifstream(g.file)
               THEN [w |-> Log(w1, 51, <<"  Failed.">>), successes |-> successes]
               ELSE convertLoop_BreaksOnFailure(
                        Log(Call(w1, 54, "mono_convert_symbols", g.file, 0),
                            57, <<"  Converted.">>),
                        g.rest, successes + 1)

\* The while loop of convertSymbols, lines 44-58.
RECURSIVE convertLoop(_, _, _)
convertLoop(w, stream, successes) ==
    LET g == getline(stream, " ")
    IN IF ~g.ok THEN [w |-> w, successes |-> successes]
       ELSE LET w1 == Log(w, 45, <<"Converting: %s">> \o g.file)
            IN IF g.file = <<>> \/ ~ifstream(g.file)
               THEN convertLoop(Log(w1, 51, <<"  Failed.">>), g.rest, successes)
               ELSE convertLoop(
                        Log(Call(w1, 54, "mono_convert_symbols", g.file, 0),
                            57, <<"  Converted.">>),
                        g.rest, successes + 1)

\* convertSymbols without the length test of line 37.
convertSymbols_NoLengthTest(w) ==
    LET w1 == Log(w, 38, <<"Symbol file generation">>)
        w2 == Log(w1, 39, <<"----------------------">>)
        r  == convertLoop(w2, symbols, 0)
        w3 == Call(r.w, 59, "logprintf", <<" Converted %d files.">>, r.successes)
    IN Log(w3, 60, <<"">>)

convertSymbols(w) ==
    IF Len(symbols) > 0
    THEN LET w1 == Log(w, 38, <<"Symbol file generation">>)
             w2 == Log(w1, 39, <<"----------------------">>)
             r  == convertLoop(w2, symbols, 0)
             w3 == Call(r.w, 59, "logprintf", <<" Converted %d files.">>, r.successes)
         IN Log(w3, 60, <<"">>)
    ELSE w

\* ------------------------------------------------------------ loadGamemode
\* loadGamemode that requests the filterscript but forgets to set the flag.
loadGamemode_FlagNotSet(w, rtOk, gmOk) ==
    IF GameMode_IsLoaded(w) THEN w
    ELSE LET w1 == IF ~w.fs
                   THEN Call(w, 69, "SendRconCommand", <<"loadfs empty">>, 0)
                   ELSE w
             w2 == IF ~MonoRuntime_IsLoaded(w1)
                   THEN MonoRuntime_Load(w1, 75, rtOk)
                   ELSE w1
             w3 == Call(w2, 83, "set_codepage", <<>>, 0)
             w4 == convertSymbols(w3)
             w5 == Log(Log(Log(w4, 91, <<"Gamemode">>), 92, <<"---------------">>),
                       93, <<"Loading gamemode: %s:%s">>)
             w6 == GameMode_Load(w5, 96, gmOk)
             w7 == IF w6.gm THEN Log(w6, 98, <<"  Loaded.">>)
                            ELSE Log(w6, 100, <<"  Failed.">>)
         IN Log(w7, 102, <<"">>)

\* loadGamemode without the early return of line 65.
loadGamemode_NoGuard(w, rtOk, gmOk) ==
    LET w1 == IF ~w.fs
              THEN [Call(w, 69, "SendRconCommand", <<"loadfs empty">>, 0)
                       EXCEPT !.fs = TRUE]
              ELSE w
        w2 == IF ~MonoRuntime_IsLoaded(w1)
              THEN MonoRuntime_Load(w1, 75, rtOk)
              ELSE w1
        w3 == Call(w2, 83, "set_codepage", <<>>, 0)
        w4 == convertSymbols(w3)
        w5 == Log(Log(Log(w4, 91, <<"Gamemode">>), 92, <<"---------------">>),
                  93, <<"Loading gamemode: %s:%s">>)
        w6 == GameMode_Load(w5, 96, gmOk)
        w7 == IF w6.gm THEN Log(w6, 98, <<"  Loaded.">>)
                       ELSE Log(w6, 100, <<"  Failed.">>)
    IN Log(w7, 102, <<"">>)

\* loadGamemode that tries GameMode::Load a second time when the first fails.
loadGamemode_RetriesLoad(w, rtOk, gmOk) ==
    IF GameMode_IsLoaded(w) THEN w
    ELSE LET w1 == IF ~w.fs
                   THEN [Call(w, 69, "SendRconCommand", <<"loadfs empty">>, 0)
                            EXCEPT !.fs = TRUE]
                   ELSE w
             w2 == IF ~MonoRuntime_IsLoaded(w1)
                   THEN MonoRuntime_Load(w1, 75, rtOk)
                   ELSE w1
             w3 == Call(w2, 83, "set_codepage", <<>>, 0)
             w4 == convertSymbols(w3)
             w5 == Log(Log(Log(w4, 91, <<"Gamemode">>), 92, <<"---------------">>),
                       93, <<"Loading gamemode: %s:%s">>)
             w6 == GameMode_Load(w5, 96, gmOk)
             w7 == IF w6.gm THEN Log(w6, 98, <<"  Loaded.">>)
                            ELSE Log(GameMode_Load(w6, 96, gmOk), 100, <<"  Failed.">>)
         IN Log(w7, 102, <<"">>)

\* loadGamemode that brings the runtime up before asking for the filterscript.
loadGamemode_RuntimeBeforeFilterscript(w, rtOk, gmOk) ==
    IF GameMode_IsLoaded(w) THEN w
    ELSE LET w1 == IF ~MonoRuntime_IsLoaded(w)
                   THEN MonoRuntime_Load(w, 75, rtOk)
                   ELSE w
             w2 == IF ~w1.fs
                   THEN [Call(w1, 69, "SendRconCommand", <<"loadfs empty">>, 0)
                            EXCEPT !.fs = TRUE]
                   ELSE w1
             w3 == Call(w2, 83, "set_codepage", <<>>, 0)
             w4 == convertSymbols(w3)
             w5 == Log(Log(Log(w4, 91, <<"Gamemode">>), 92, <<"---------------">>),
                       93, <<"Loading gamemode: %s:%s">>)
             w6 == GameMode_Load(w5, 96, gmOk)
             w7 == IF w6.gm THEN Log(w6, 98, <<"  Loaded.">>)
                            ELSE Log(w6, 100, <<"  Failed.">>)
         IN Log(w7, 102, <<"">>)

\* loadGamemode without the MonoRuntime::IsLoaded() test of line 74.
loadGamemode_RuntimeAlwaysLoaded(w, rtOk, gmOk) ==
    IF GameMode_IsLoaded(w) THEN w
    ELSE LET w1 == IF ~w.fs
                   THEN [Call(w, 69, "SendRconCommand", <<"loadfs empty">>, 0)
                            EXCEPT !.fs = TRUE]
                   ELSE w
             w2 == MonoRuntime_Load(w1, 75, rtOk)
             w3 == Call(w2, 83, "set_codepage", <<>>, 0)
             w4 == convertSymbols(w3)
             w5 == Log(Log(Log(w4, 91, <<"Gamemode">>), 92, <<"---------------">>),
                       93, <<"Loading gamemode: %s:%s">>)
             w6 == GameMode_Load(w5, 96, gmOk)
             w7 == IF w6.gm THEN Log(w6, 98, <<"  Loaded.">>)
                            ELSE Log(w6, 100, <<"  Failed.">>)
         IN Log(w7, 102, <<"">>)

loadGamemode(w, rtOk, gmOk) ==
    IF GameMode_IsLoaded(w) THEN w
    ELSE LET w1 == IF ~w.fs
                   THEN [Call(w, 69, "SendRconCommand", <<"loadfs empty">>, 0)
                            EXCEPT !.fs = TRUE]
                   ELSE w
             w2 == IF ~MonoRuntime_IsLoaded(w1)
                   THEN MonoRuntime_Load(w1, 75, rtOk)
                   ELSE w1
             w3 == Call(w2, 83, "set_codepage", <<>>, 0)
             w4 == convertSymbols(w3)
             w5 == Log(Log(Log(w4, 91, <<"Gamemode">>), 92, <<"---------------">>),
                       93, <<"Loading gamemode: %s:%s">>)
             w6 == GameMode_Load(w5, 96, gmOk)
             w7 == IF w6.gm THEN Log(w6, 98, <<"  Loaded.">>)
                            ELSE Log(w6, 100, <<"  Failed.">>)
         IN Log(w7, 102, <<"">>)

\* ---------------------------------------------------------- unloadGamemode
\* unloadGamemode without the early return of line 106.
unloadGamemode_NoGuard(w) ==
    LET w1 == Log(Log(Log(w, 111, <<"">>), 112, <<"---------------">>),
                  113, <<"Unloading gamemode: %s:%s">>)
        w2 == GameMode_Unload(w1, 115)
    IN Log(Log(w2, 117, <<"  Unloaded.">>), 118, <<"">>)

\* unloadGamemode that tears the managed runtime down with the game-mode.
unloadGamemode_UnloadsRuntime(w) ==
    IF ~GameMode_IsLoaded(w) THEN w
    ELSE LET w1 == Log(Log(Log(w, 111, <<"">>), 112, <<"---------------">>),
                       113, <<"Unloading gamemode: %s:%s">>)
             w2 == MonoRuntime_Unload(GameMode_Unload(w1, 115), 115)
         IN Log(Log(w2, 117, <<"  Unloaded.">>), 118, <<"">>)

unloadGamemode(w) ==
    IF ~GameMode_IsLoaded(w) THEN w
    ELSE LET w1 == Log(Log(Log(w, 111, <<"">>), 112, <<"---------------">>),
                       113, <<"Unloading gamemode: %s:%s">>)
             w2 == GameMode_Unload(w1, 115)
         IN Log(Log(w2, 117, <<"  Unloaded.">>), 118, <<"">>)

\* ------------------------------------------------------ plugin entry points
\* Attach that reads the configuration before asking sampgdk.
PluginLoad_ReadsConfigFirst(w, ok) ==
    LET w0 == Call(w, 136, "Config::Read", <<>>, 0)
        w1 == Call(w0, 126, "sampgdk::Load", <<>>, IF ok THEN 1 ELSE 0)
    IN IF ~ok THEN Return(w1, "false")
       ELSE LET w2 == Log(Log(Log(Log(Log(w1, 130, <<"">>),
                                          131, <<"SampSharp Plugin">>),
                                      132, <<"----------------">>),
                                  133, <<"v%s, (C)2014-2015 Tim Potze">>),
                              134, <<"">>)
            IN Return(w2, "true")

\* Load(ppData); `ok` is what sampgdk::Load returns (recorded as 1 or 0).
PluginLoad(w, ok) ==
    LET w1 == Call(w, 126, "sampgdk::Load", <<>>, IF ok THEN 1 ELSE 0)
    IN IF ~ok THEN Return(w1, "false")
       ELSE LET w2 == Log(Log(Log(Log(Log(w1, 130, <<"">>),
                                          131, <<"SampSharp Plugin">>),
                                      132, <<"----------------">>),
                                  133, <<"v%s, (C)2014-2015 Tim Potze">>),
                              134, <<"">>)
                w3 == Call(w2, 136, "Config::Read", <<>>, 0)
            IN Return(w3, "true")

\* Detach that tears the runtime down before the game-mode.
PluginUnload_RuntimeFirst(w) ==
    LET w1 == MonoRuntime_Unload(w, 142)
        w2 == GameMode_Unload(w1, 141)
    IN Call(w2, 143, "sampgdk::Unload", <<>>, 0)

PluginUnload(w) ==
    LET w1 == GameMode_Unload(w, 141)
        w2 == MonoRuntime_Unload(w1, 142)
    IN Call(w2, 143, "sampgdk::Unload", <<>>, 0)

\* Tick that leaves the game-mode alone when it is not loaded.
PluginProcessTick_OnlyWhenLoaded(w) ==
    LET w1 == IF GameMode_IsLoaded(w) THEN GameMode_ProcessTick(w, 147) ELSE w
    IN Call(w1, 148, "sampgdk::ProcessTick", <<>>, 0)

PluginProcessTick(w) ==
    LET w1 == GameMode_ProcessTick(w, 147)
    IN Call(w1, 148, "sampgdk::ProcessTick", <<>>, 0)

\* Dispatch that unloads the game-mode before handing it the exit event.
PluginOnPublicCall_UnloadFirst(w, name, rtOk, gmOk) ==
    LET w1 == IF name = "OnGameModeInit"
              THEN loadGamemode(w, rtOk, gmOk)
              ELSE IF GameMode_IsLoaded(w) /\ name = "OnGameModeExit"
                   THEN GameMode_ProcessPublicCall(unloadGamemode(w), 158, name)
                   ELSE w
        w2 == IF GameMode_IsLoaded(w1)
              THEN GameMode_ProcessPublicCall(w1, 164, name)
              ELSE w1
    IN Return(w2, "true")

\* Dispatch whose unload branch does not ask whether the game-mode is loaded.
PluginOnPublicCall_ExitUnguarded(w, name, rtOk, gmOk) ==
    LET w1 == IF name = "OnGameModeInit"
              THEN loadGamemode(w, rtOk, gmOk)
              ELSE IF name = "OnGameModeExit"
                   THEN unloadGamemode(GameMode_ProcessPublicCall(w, 158, name))
                   ELSE w
        w2 == IF GameMode_IsLoaded(w1)
              THEN GameMode_ProcessPublicCall(w1, 164, name)
              ELSE w1
    IN Return(w2, "true")

\* Dispatch whose unload branch does not compare the event name.
PluginOnPublicCall_AnyNameUnloads(w, name, rtOk, gmOk) ==
    LET w1 == IF name = "OnGameModeInit"
              THEN loadGamemode(w, rtOk, gmOk)
              ELSE IF GameMode_IsLoaded(w)
                   THEN unloadGamemode(GameMode_ProcessPublicCall(w, 158, name))
                   ELSE w
        w2 == IF GameMode_IsLoaded(w1)
              THEN GameMode_ProcessPublicCall(w1, 164, name)
              ELSE w1
    IN Return(w2, "true")

\* Dispatch that reports whether managed code handled the event.
PluginOnPublicCall_ReturnsHandled(w, name, rtOk, gmOk) ==
    LET w1 == IF name = "OnGameModeInit"
              THEN loadGamemode(w, rtOk, gmOk)
              ELSE IF GameMode_IsLoaded(w) /\ name = "OnGameModeExit"
                   THEN unloadGamemode(GameMode_ProcessPublicCall(w, 158, name))
                   ELSE w
        w2 == IF GameMode_IsLoaded(w1)
              THEN GameMode_ProcessPublicCall(w1, 164, name)
              ELSE w1
    IN Return(w2, IF GameMode_IsLoaded(w2) THEN "true" ELSE "false")

\* Dispatch that forwards to a loaded game-mode first and runs the lifecycle
\* branch afterwards.
PluginOnPublicCall_ForwardFirst(w, name, rtOk, gmOk) ==
    LET w1 == IF GameMode_IsLoaded(w) /\ name # "OnGameModeExit"
              THEN GameMode_ProcessPublicCall(w, 164, name)
              ELSE w
        w2 == IF name = "OnGameModeInit"
              THEN loadGamemode(w1, rtOk, gmOk)
              ELSE IF GameMode_IsLoaded(w1) /\ name = "OnGameModeExit"
                   THEN unloadGamemode(GameMode_ProcessPublicCall(w1, 158, name))
                   ELSE w1
    IN Return(w2, "true")

\* Dispatch whose trailing forward does not ask whether the game-mode is
\* loaded.
PluginOnPublicCall_ForwardsAlways(w, name, rtOk, gmOk) ==
    LET w1 == IF name = "OnGameModeInit"
              THEN loadGamemode(w, rtOk, gmOk)
              ELSE IF GameMode_IsLoaded(w) /\ name = "OnGameModeExit"
                   THEN unloadGamemode(GameMode_ProcessPublicCall(w, 158, name))
                   ELSE w
        w2 == GameMode_ProcessPublicCall(w1, 164, name)
    IN Return(w2, "true")

PluginOnPublicCall(w, name, rtOk, gmOk) ==
    LET w1 == IF name = "OnGameModeInit"
              THEN loadGamemode(w, rtOk, gmOk)
              ELSE IF GameMode_IsLoaded(w) /\ name = "OnGameModeExit"
                   THEN unloadGamemode(GameMode_ProcessPublicCall(w, 158, name))
                   ELSE w
        w2 == IF GameMode_IsLoaded(w1)
              THEN GameMode_ProcessPublicCall(w1, 164, name)
              ELSE w1
    IN Return(w2, "true")

\* ------------------------------------------------------------ state machine
CountCalls(cs, callee) == Cardinality({i \in 1..Len(cs) : cs[i].call = callee})

Min(a, b) == IF a < b THEN a ELSE b

\* The three steps whose first occurrences order the lifecycles.
LoadSteps == {"SendRconCommand", "MonoRuntime::Load", "GameMode::Load"}

\* MonoRuntime::Load calls not yet followed by a MonoRuntime::Unload, after
\* the calls cs, starting from n.
RECURSIVE LoadsSinceUnload(_, _)
LoadsSinceUnload(n, cs) ==
    IF cs = <<>> THEN n
    ELSE LoadsSinceUnload(
             IF Head(cs).call = "MonoRuntime::Load" THEN Min(n + 1, MaxRequests)
             ELSE IF Head(cs).call = "MonoRuntime::Unload" THEN 0
             ELSE n,
             Tail(cs))

\* ms extended by the load steps that cs takes for the first time.
RECURSIVE FirstOccurrences(_, _)
FirstOccurrences(ms, cs) ==
    IF cs = <<>> THEN ms
    ELSE LET c == Head(cs).call
             seen == {ms[i] : i \in 1..Len(ms)}
         IN FirstOccurrences(
                IF c \in LoadSteps /\ c \notin seen THEN Append(ms, c) ELSE ms,
                Tail(cs))

\* Store the world an entry point leaves behind.
Commit(w, o) ==
    /\ filterscript_loaded' = w.fs
    /\ gm_loaded' = w.gm
    /\ rt_loaded' = w.rt
    /\ calls' = w.calls
    /\ ret' = w.ret
    /\ op' = o
    /\ pre' = [fs |-> filterscript_loaded, gm |-> gm_loaded, rt |-> rt_loaded]
    /\ loadfs_requests' =
           Min(loadfs_requests + CountCalls(w.calls, "SendRconCommand"), MaxRequests)
    /\ rt_loads' = LoadsSinceUnload(rt_loads, w.calls)
    /\ milestones' = FirstOccurrences(milestones, w.calls)
    /\ UNCHANGED <<symbols, files>>

Init ==
    /\ phase = "unattached"
    /\ filterscript_loaded = FALSE
    /\ gm_loaded = FALSE
    /\ rt_loaded = FALSE
    /\ symbols \in StringsUpTo(MaxLen)
    /\ files \in SUBSET FileNames
    /\ op = [name |-> "none", arg |-> ""]
    /\ pre = [fs |-> FALSE, gm |-> FALSE, rt |-> FALSE]
    /\ calls = <<>>
    /\ ret = "void"
    /\ loadfs_requests = 0
    /\ rt_loads = 0
    /\ milestones = <<>>

Load ==
    /\ phase = "unattached"
    /\ \E ok \in BOOLEAN :
          LET w == PluginLoad(World, ok)
          IN /\ Commit(w, [name |-> "Load", arg |-> ""])
             /\ phase' = IF w.ret = "true" THEN "attached" ELSE "failed"

Unload ==
    /\ phase = "attached"
    /\ Commit(PluginUnload(World), [name |-> "Unload", arg |-> ""])
    /\ phase' = "detached"

ProcessTick ==
    /\ phase = "attached"
    /\ Commit(PluginProcessTick(World), [name |-> "ProcessTick", arg |-> ""])
    /\ UNCHANGED phase

OnPublicCall ==
    /\ phase = "attached"
    /\ \E name \in EventNames, rtOk \in BOOLEAN, gmOk \in BOOLEAN :
          Commit(PluginOnPublicCall(World, name, rtOk, gmOk),
                 [name |-> "OnPublicCall", arg |-> name])
    /\ UNCHANGED phase

Next == Load \/ Unload \/ ProcessTick \/ OnPublicCall

Spec == Init /\ [][Next]_vars

\* unloadGamemode has external linkage; another translation unit of the
\* plugin may call it in any lifecycle state.
UnloadGamemodeDirect ==
    /\ phase = "attached"
    /\ Commit(unloadGamemode(World), [name |-> "unloadGamemode", arg |-> ""])
    /\ UNCHANGED phase

NextDirect == Next \/ UnloadGamemodeDirect

SpecDirect == Init /\ [][NextDirect]_vars

TypeOK ==
    /\ phase \in {"unattached", "attached", "failed", "detached"}
    /\ filterscript_loaded \in BOOLEAN
    /\ gm_loaded \in BOOLEAN
    /\ rt_loaded \in BOOLEAN
    /\ ret \in {"true", "false", "void"}
    /\ loadfs_requests \in 0..MaxRequests
    /\ rt_loads \in 0..MaxRequests
    /\ \A i \in 1..Len(milestones) : milestones[i] \in LoadSteps

\* ------------------------------------------------- reading the call record
IsDispatch(name) == op = [name |-> "OnPublicCall", arg |-> name]

CallIndexes(callee) == {i \in 1..Len(calls) : calls[i].call = callee}

LineIndexes(line) == {i \in 1..Len(calls) : calls[i].line = line}

Forwards == CallIndexes("GameMode::ProcessPublicCall")

HandleTransitions ==
    CallIndexes("GameMode::Load") \cup CallIndexes("GameMode::Unload")
        \cup CallIndexes("MonoRuntime::Load") \cup CallIndexes("MonoRuntime::Unload")

\* ----------------------------------------------------------------------- C1
\* C1: an OnGameModeExit dispatched while the game-mode is loaded forwards
\* the exit event to GameMode::ProcessPublicCall exactly once, that forward
\* comes strictly before the (single) GameMode::Unload, the trailing forward
\* at line 164 does not deliver it again, and on return the game-mode is not
\* loaded.
C1_ExitForwardedOnceBeforeUnload ==
    (IsDispatch("OnGameModeExit") /\ pre.gm) =>
        /\ Cardinality(Forwards) = 1
        /\ \A i \in Forwards : calls[i].arg = <<"OnGameModeExit">>
        /\ Cardinality(CallIndexes("GameMode::Unload")) = 1
        /\ \A i \in Forwards : \A j \in CallIndexes("GameMode::Unload") : i < j
        /\ LineIndexes(164) = {}
        /\ ~gm_loaded

C1_Witness ==
    /\ IsDispatch("OnGameModeExit")
    /\ pre.gm
    /\ LineIndexes(158) # {}
    /\ LineIndexes(115) # {}

\* ----------------------------------------------------------------------- C2
\* C2: for an event name other than OnGameModeInit and OnGameModeExit one
\* dispatch forwards exactly once when the game-mode is loaded and not at
\* all when it is not, calls no Load or Unload of either handle, and
\* returns true.
C2_OtherEventsForwardOnly ==
    \A name \in EventNames \ {"OnGameModeInit", "OnGameModeExit"} :
        IsDispatch(name) =>
            /\ Cardinality(Forwards) = (IF pre.gm THEN 1 ELSE 0)
            /\ \A i \in Forwards : calls[i].arg = <<name>>
            /\ HandleTransitions = {}
            /\ ret = "true"

C2_Witness ==
    /\ IsDispatch("OnPlayerConnect")
    /\ pre.gm
    /\ Cardinality(Forwards) = 1

\* ----------------------------------------------------------------------- C3
\* C3: over a whole process lifetime the bootstrap filterscript is requested
\* at most once, and filterscript_loaded never goes from true back to false.
C3_FilterscriptRequestedOnce ==
    /\ [](loadfs_requests <= 1)
    /\ [][filterscript_loaded => filterscript_loaded']_vars

\* A second load sequence (after a failed load or an exit) that reached
\* GameMode::Load with the flag already set.
C3_Witness ==
    /\ IsDispatch("OnGameModeInit")
    /\ pre.fs
    /\ ~pre.gm
    /\ CallIndexes("GameMode::Load") # {}
    /\ loadfs_requests = 1

\* ----------------------------------------------------------------------- C4
\* C4: an OnGameModeInit dispatched while the game-mode is already loaded
\* makes exactly one call, the trailing ProcessPublicCall forward of line
\* 164: no filterscript request, no MonoRuntime::Load, no set_codepage, no
\* symbol conversion and no GameMode::Load.
C4_InitWhileLoadedOnlyForwards ==
    (IsDispatch("OnGameModeInit") /\ pre.gm) =>
        /\ Len(calls) = 1
        /\ calls[1].call = "GameMode::ProcessPublicCall"
        /\ calls[1].line = 164
        /\ calls[1].arg = <<"OnGameModeInit">>

C4_Witness ==
    /\ IsDispatch("OnGameModeInit")
    /\ pre.gm
    /\ Forwards # {}

\* ----------------------------------------------------------------------- C5
\* C5: plugin Unload, whatever the lifecycle state, calls GameMode::Unload
\* once and then MonoRuntime::Unload once, in that order, also when the
\* game-mode was not loaded, and leaves both handles not loaded.
C5_DetachUnloadsGameModeThenRuntime ==
    op.name = "Unload" =>
        /\ Cardinality(CallIndexes("GameMode::Unload")) = 1
        /\ Cardinality(CallIndexes("MonoRuntime::Unload")) = 1
        /\ \A i \in CallIndexes("GameMode::Unload") :
              \A j \in CallIndexes("MonoRuntime::Unload") : i < j
        /\ ~gm_loaded
        /\ ~rt_loaded

\* Detach with the runtime up and the game-mode down.
C5_Witness ==
    /\ op.name = "Unload"
    /\ ~pre.gm
    /\ pre.rt
    /\ CallIndexes("MonoRuntime::Unload") # {}

\* ----------------------------------------------------------------------- C6
\* C6: OnPublicCall returns true for every event name in every lifecycle
\* state after a successful attach.
C6_OnPublicCallReturnsTrue ==
    op.name = "OnPublicCall" => ret = "true"

\* An OnGameModeInit whose GameMode::Load failed.
C6_Witness ==
    /\ IsDispatch("OnGameModeInit")
    /\ CallIndexes("GameMode::Load") # {}
    /\ ~gm_loaded
    /\ ret = "true"

\* ----------------------------------------------------------------------- C7
\* Calls made by convertSymbols (lines 34-62).
ConvertCalls == {i \in 1..Len(calls) : calls[i].line \in 34..62}

FailedLines == LineIndexes(51)

ConvertedLines == LineIndexes(57)

\* The count printed by " Converted %d files.", -1 when nothing was printed.
ReportedSuccesses ==
    IF LineIndexes(59) = {} THEN -1
    ELSE LET i == CHOOSE i \in LineIndexes(59) : TRUE IN calls[i].n

\* A load sequence that passed the already-loaded guard.
LoadSequenceRan == IsDispatch("OnGameModeInit") /\ ~pre.gm

\* The list "a.dbg  b.dbg" (two spaces) with a.dbg openable and b.dbg not.
TwoSpaceExample ==
    /\ symbols = <<"a", " ", " ", "b">>
    /\ <<"a">> \in files
    /\ <<"b">> \notin files

\* Entries std::getline cuts out of the list: one per space, and one more
\* for what follows the last space.
SpaceDelimitedEntries ==
    Cardinality({i \in 1..Len(symbols) : symbols[i] = " "})
        + (IF symbols # <<>> /\ symbols[Len(symbols)] # " " THEN 1 ELSE 0)

\* C7 as stated: for the list "a.dbg  b.dbg" convertSymbols reports exactly
\* one successful conversion and logs exactly one failure, and loadGamemode
\* goes on to attempt GameMode::Load.
C7_Original_OneFailureForTwoSpaces ==
    (LoadSequenceRan /\ TwoSpaceExample) =>
        /\ ReportedSuccesses = 1
        /\ Cardinality(FailedLines) = 1
        /\ CallIndexes("GameMode::Load") # {}

\* C7 amended: convertSymbols produces one outcome per space-delimited entry
\* of the list, an empty entry between two adjacent spaces being logged as a
\* failure; so for "a.dbg  b.dbg" it reports exactly one successful
\* conversion and logs exactly two failures, and loadGamemode still goes on
\* to attempt GameMode::Load.
C7_OneOutcomePerSpaceDelimitedEntry ==
    LoadSequenceRan =>
        /\ symbols # <<>> =>
              Cardinality(FailedLines) + Cardinality(ConvertedLines)
                  = SpaceDelimitedEntries
        /\ TwoSpaceExample =>
              /\ ReportedSuccesses = 1
              /\ Cardinality(FailedLines) = 2
        /\ CallIndexes("GameMode::Load") # {}

C7_Witness ==
    /\ LoadSequenceRan
    /\ TwoSpaceExample
    /\ Cardinality(FailedLines) = 2
    /\ ReportedSuccesses = 1

\* ----------------------------------------------------------------------- C8
\* C8: with an empty symbol-file list convertSymbols logs nothing and never
\* calls mono_convert_symbols, and the load sequence still reaches
\* GameMode::Load.
C8_EmptyListConvertsNothing ==
    (LoadSequenceRan /\ symbols = <<>>) =>
        /\ ConvertCalls = {}
        /\ CallIndexes("mono_convert_symbols") = {}
        /\ CallIndexes("GameMode::Load") # {}

C8_Witness ==
    /\ LoadSequenceRan
    /\ symbols = <<>>
    /\ CallIndexes("set_codepage") # {}
    /\ CallIndexes("GameMode::Load") # {}

\* ----------------------------------------------------------------------- C9
\* C9: an OnGameModeExit dispatched while the game-mode is not loaded calls
\* neither GameMode::Unload nor GameMode::ProcessPublicCall, leaves the
\* filterscript flag and the runtime's loaded state as they were, and
\* returns true; and unloadGamemode entered while the game-mode is not
\* loaded never reaches GameMode::Unload.
C9_ExitWhileUnloadedDoesNothing ==
    /\ (IsDispatch("OnGameModeExit") /\ ~pre.gm) =>
          /\ CallIndexes("GameMode::Unload") = {}
          /\ Forwards = {}
          /\ filterscript_loaded = pre.fs
          /\ rt_loaded = pre.rt
          /\ ret = "true"
    /\ (op.name = "unloadGamemode" /\ ~pre.gm) =>
          CallIndexes("GameMode::Unload") = {}

\* The exit event arriving after a load sequence that left the runtime up
\* and the game-mode down.
C9_Witness ==
    /\ IsDispatch("OnGameModeExit")
    /\ ~pre.gm
    /\ pre.fs
    /\ pre.rt
    /\ calls = <<>>

\* ---------------------------------------------------------------------- C10
\* C10 as stated: every GameMode::Unload call is made while the game-mode is
\* loaded.
C10_Original_UnloadOnlyWhenLoaded ==
    \A i \in CallIndexes("GameMode::Unload") : calls[i].gm

\* C10 amended: GameMode::Unload is called while the game-mode is not loaded
\* only by plugin detach (line 141), which calls it unconditionally; every
\* other GameMode::Unload call is made while the game-mode is loaded.
C10_UnloadOnlyWhenLoadedExceptDetach ==
    /\ \A i \in CallIndexes("GameMode::Unload") :
          calls[i].gm \/ (calls[i].line = 141 /\ op.name = "Unload")
    /\ op.name = "Unload" => LineIndexes(141) # {}

\* unloadGamemode entered with the game-mode loaded reaches GameMode::Unload.
C10_Witness ==
    /\ op.name = "unloadGamemode"
    /\ pre.gm
    /\ \E i \in LineIndexes(115) : calls[i].call = "GameMode::Unload" /\ calls[i].gm

\* ---------------------------------------------------------------------- C11
\* C11 as stated: every GameMode::Load attempt is made in a state where the
\* managed runtime reports loaded and the game-mode reports not loaded.
C11_GameModeLoadOnlyWithRuntimeLoaded ==
    \A i \in CallIndexes("GameMode::Load") : calls[i].rt /\ ~calls[i].gm

\* ---------------------------------------------------------------------- C12
\* The GameMode::Load of this dispatch returned false (line 100 logged).
LoadFailed == IsDispatch("OnGameModeInit") /\ LineIndexes(100) # {}

\* What a load sequence does when it is entered with the flag already set.
RepeatedLoadSequence ==
    /\ Cardinality(CallIndexes("GameMode::Load")) = 1
    /\ Cardinality(CallIndexes("set_codepage")) = 1
    /\ CallIndexes("SendRconCommand") = {}
    /\ pre.rt => CallIndexes("MonoRuntime::Load") = {}
    /\ symbols # <<>> => (LineIndexes(38) # {} /\ LineIndexes(59) # {})
    /\ \A i \in CallIndexes("set_codepage") :
          \A j \in ConvertCalls \cup CallIndexes("GameMode::Load") : i < j

\* C12: when GameMode::Load returns false during OnGameModeInit the
\* game-mode stays unloaded, the init event is not forwarded and the
\* dispatch returns true; no dispatch calls GameMode::Load more than once;
\* and the next OnGameModeInit runs the load sequence again: set_codepage,
\* convertSymbols and GameMode::Load, with no filterscript request and, if
\* the runtime is still loaded, no MonoRuntime::Load.
C12_FailedLoadRetriedOnlyByNextInit ==
    /\ [](LoadFailed => (~gm_loaded /\ Forwards = {} /\ ret = "true"))
    /\ [](op.name = "OnPublicCall" => Cardinality(CallIndexes("GameMode::Load")) <= 1)
    /\ []((LoadSequenceRan /\ pre.fs) => RepeatedLoadSequence)
    /\ [][(LoadFailed /\ IsDispatch("OnGameModeInit")')
              => (pre.fs /\ ~pre.gm /\ RepeatedLoadSequence)']_vars

\* A load that fails, in a load sequence entered after an earlier one, with
\* the runtime still loaded.
C12_Witness ==
    /\ LoadFailed
    /\ pre.fs
    /\ pre.rt
    /\ ~pre.gm
    /\ CallIndexes("GameMode::Load") # {}
    /\ CallIndexes("MonoRuntime::Load") = {}

\* ---------------------------------------------------------------------- C13
\* C13: when OnGameModeInit arrives with the game-mode unloaded and
\* GameMode::Load succeeds, the init event is forwarded exactly once in that
\* dispatch, by the trailing step of line 164, after GameMode::Load.
C13_InitForwardedAfterSuccessfulLoad ==
    (LoadSequenceRan /\ gm_loaded) =>
        /\ Cardinality(Forwards) = 1
        /\ \A i \in Forwards :
              /\ calls[i].line = 164
              /\ calls[i].arg = <<"OnGameModeInit">>
              /\ calls[i].gm
              /\ i = Len(calls)
              /\ \A j \in CallIndexes("GameMode::Load") : j < i
        /\ Cardinality(CallIndexes("GameMode::Load")) = 1

C13_Witness ==
    /\ LoadSequenceRan
    /\ gm_loaded
    /\ LineIndexes(98) # {}
    /\ LineIndexes(164) # {}

\* ---------------------------------------------------------------------- C14
IsPrefix(a, b) == Len(a) <= Len(b) /\ \A i \in 1..Len(a) : a[i] = b[i]

AllBefore(A, B) == \A i \in A : \A j \in B : i < j

\* C14: a load sequence that passes the already-loaded guard takes its steps
\* in the order filterscript request (only if not yet requested),
\* MonoRuntime::Load (only if the runtime is not loaded), set_codepage,
\* convertSymbols, GameMode::Load; and over a whole run the first
\* filterscript request comes before the first MonoRuntime::Load, which
\* comes before the first GameMode::Load.
C14_LoadStepsInFixedOrder ==
    /\ LoadSequenceRan =>
          /\ Cardinality(CallIndexes("SendRconCommand")) = (IF pre.fs THEN 0 ELSE 1)
          /\ Cardinality(CallIndexes("MonoRuntime::Load")) = (IF pre.rt THEN 0 ELSE 1)
          /\ Cardinality(CallIndexes("set_codepage")) = 1
          /\ Cardinality(CallIndexes("GameMode::Load")) = 1
          /\ AllBefore(CallIndexes("SendRconCommand"), CallIndexes("MonoRuntime::Load"))
          /\ AllBefore(CallIndexes("SendRconCommand"), CallIndexes("set_codepage"))
          /\ AllBefore(CallIndexes("MonoRuntime::Load"), CallIndexes("set_codepage"))
          /\ AllBefore(CallIndexes("set_codepage"), ConvertCalls)
          /\ AllBefore(CallIndexes("set_codepage"), CallIndexes("GameMode::Load"))
          /\ AllBefore(ConvertCalls, CallIndexes("GameMode::Load"))
    /\ IsPrefix(milestones, <<"SendRconCommand", "MonoRuntime::Load", "GameMode::Load">>)

\* A first load sequence with a non-empty symbol list.
C14_Witness ==
    /\ LoadSequenceRan
    /\ ~pre.fs
    /\ ~pre.rt
    /\ ConvertCalls # {}
    /\ milestones = <<"SendRconCommand", "MonoRuntime::Load", "GameMode::Load">>

\* ---------------------------------------------------------------------- C15
\* C15: MonoRuntime::Unload is called only by plugin detach; no other
\* operation, the unload sequence of OnGameModeExit included, takes a
\* loaded runtime down.
C15_RuntimeUnloadedOnlyByDetach ==
    /\ [](CallIndexes("MonoRuntime::Unload") # {} => op.name = "Unload")
    /\ []((IsDispatch("OnGameModeExit") /\ pre.rt) => rt_loaded)
    /\ [][(rt_loaded /\ op'.name # "Unload") => rt_loaded']_vars

\* An exit that unloaded the game-mode and left the runtime up.
C15_Witness ==
    /\ IsDispatch("OnGameModeExit")
    /\ pre.gm
    /\ pre.rt
    /\ ~gm_loaded
    /\ rt_loaded
    /\ CallIndexes("GameMode::Unload") # {}

\* ---------------------------------------------------------------------- C16
\* C16 as stated: MonoRuntime::Load is never called while the runtime
\* reports loaded, and between any two MonoRuntime::Load calls there is a
\* MonoRuntime::Unload.
C16_Original_UnloadBetweenRuntimeLoads ==
    /\ \A i \in CallIndexes("MonoRuntime::Load") : ~calls[i].rt
    /\ rt_loads <= 1

\* C16 amended: MonoRuntime::Load is never called while the runtime reports
\* loaded: once the runtime is loaded no MonoRuntime::Load is called until a
\* MonoRuntime::Unload has taken it down.  (A MonoRuntime::Load that left
\* the runtime not loaded is repeated by the next load sequence, with no
\* MonoRuntime::Unload in between.)
C16_NoRuntimeLoadWhileLoaded ==
    /\ [](\A i \in CallIndexes("MonoRuntime::Load") : ~calls[i].rt)
    /\ [](\A i \in CallIndexes("MonoRuntime::Load") :
             \A j \in CallIndexes("MonoRuntime::Load") : i = j)
    /\ [][rt_loaded => (CallIndexes("MonoRuntime::Load") = {})']_vars

\* A second MonoRuntime::Load with no MonoRuntime::Unload since the first.
C16_Witness ==
    /\ LoadSequenceRan
    /\ pre.fs
    /\ ~pre.rt
    /\ CallIndexes("MonoRuntime::Load") # {}
    /\ rt_loads = 2

\* ---------------------------------------------------------------------- C17
\* Where the entries of the list start: at its first character and after
\* every space that is not its last character.
EntryStarts == {p \in 1..Len(symbols) : p = 1 \/ symbols[p - 1] = " "}

\* The entry starting at p: the characters from p up to the next space.
EntryAt(p) ==
    LET ends == {q \in (p - 1)..Len(symbols) : \A k \in p..q : symbols[k] # " "}
        last == CHOOSE q \in ends : \A r \in ends : r <= q
    IN SubSeq(symbols, p, last)

\* The k-th smallest element of a set of numbers.
Kth(S, k) == CHOOSE x \in S : Cardinality({y \in S : y < x}) = k - 1

Convertible(e) == e # <<>> /\ e \in files

\* C17: convertSymbols goes through every entry of the list, in order,
\* whatever happened to the entries before it: an empty or unopenable entry
\* is logged as failed and skipped, every other entry is passed to
\* mono_convert_symbols and logged as converted, and the count printed at
\* the end is the number of mono_convert_symbols calls.
C17_FailuresSkippedLoopContinues ==
    (LoadSequenceRan /\ symbols # <<>>) =>
        /\ Cardinality(LineIndexes(45)) = Cardinality(EntryStarts)
        /\ \A k \in 1..Cardinality(EntryStarts) :
              LET i == Kth(LineIndexes(45), k)
                  e == EntryAt(Kth(EntryStarts, k))
              IN /\ calls[i].arg = <<"Converting: %s">> \o e
                 /\ IF Convertible(e)
                    THEN /\ calls[i + 1].call = "mono_convert_symbols"
                         /\ calls[i + 1].arg = e
                         /\ calls[i + 2].line = 57
                    ELSE calls[i + 1].line = 51
        /\ Cardinality(CallIndexes("mono_convert_symbols"))
              = Cardinality({p \in EntryStarts : Convertible(EntryAt(p))})
        /\ ReportedSuccesses = Cardinality(CallIndexes("mono_convert_symbols"))

\* A failed entry followed by a converted one.
C17_Witness ==
    /\ LoadSequenceRan
    /\ \E i \in LineIndexes(51) : \E j \in CallIndexes("mono_convert_symbols") : i < j
    /\ ReportedSuccesses = 1

\* ---------------------------------------------------------------------- C18
\* C18: ProcessTick, in every lifecycle state, calls GameMode::ProcessTick
\* and then sampgdk::ProcessTick and nothing else, and leaves the
\* filterscript flag and both handles' loaded state as they were.
C18_TickForwardsAndChangesNothing ==
    op.name = "ProcessTick" =>
        /\ Len(calls) = 2
        /\ calls[1].call = "GameMode::ProcessTick"
        /\ calls[2].call = "sampgdk::ProcessTick"
        /\ filterscript_loaded = pre.fs
        /\ rt_loaded = pre.rt
        /\ gm_loaded = pre.gm

\* A tick while the game-mode is not loaded.
C18_Witness ==
    /\ op.name = "ProcessTick"
    /\ ~pre.gm
    /\ CallIndexes("GameMode::ProcessTick") # {}

\* ---------------------------------------------------------------------- C19
\* C19: when sampgdk::Load fails, plugin Load returns false having made no
\* other call (no Config::Read) and with the lifecycle state untouched; when
\* it succeeds, Load calls Config::Read exactly once, afterwards, and
\* returns true; no other operation calls Config::Read.
C19_ConfigReadOnceAtAttach ==
    /\ op.name = "Load" =>
          /\ Len(calls) >= 1
          /\ calls[1].call = "sampgdk::Load"
          /\ calls[1].n = 0 =>
                /\ ret = "false"
                /\ Len(calls) = 1
                /\ phase = "failed"
                /\ ~filterscript_loaded /\ ~rt_loaded /\ ~gm_loaded
          /\ calls[1].n = 1 =>
                /\ ret = "true"
                /\ phase = "attached"
                /\ Cardinality(CallIndexes("Config::Read")) = 1
    /\ op.name # "Load" => CallIndexes("Config::Read") = {}

\* A failed attach.
C19_Witness ==
    /\ op.name = "Load"
    /\ calls[1].n = 0
    /\ ret = "false"

\* ---------------------------------------------------------------------- C20
\* C20: at the boundary of every bridge operation a loaded game-mode implies
\* a loaded runtime and a set filterscript flag; GameMode::ProcessPublicCall
\* is only ever called while the game-mode is loaded, and at most once per
\* OnPublicCall dispatch.
C20_LoadedImpliesRuntimeAndForwardOnlyWhenLoaded ==
    /\ gm_loaded => (rt_loaded /\ filterscript_loaded)
    /\ \A i \in Forwards : calls[i].gm
    /\ op.name = "OnPublicCall" => Cardinality(Forwards) <= 1

\* An ordinary event forwarded to a loaded game-mode.
C20_Witness ==
    /\ IsDispatch("OnPlayerUpdate")
    /\ gm_loaded
    /\ rt_loaded
    /\ filterscript_loaded
    /\ Forwards # {}
====
